---------------------------- MODULE Spec2Model ----------------------------
(***************************************************************************)
(* UrbitIrcBridge: the IRC side of the bridge (irc_bot.py) and the relay   *)
(* between the two processes of one bridge instance (irc_bridge.py).       *)
(*                                                                         *)
(*  - ExponentialBackoff: the reconnect strategy (run / check)             *)
(*  - SingleServerIRCBot: connection handling and the channel tracker      *)
(*  - BridgeIrcBot: on_pubmsg (IRC -> Urbit) and check_queue (Urbit -> IRC)*)
(*  - urbit_client / urbit_bot: the Urbit session and the listener process *)
(*                                                                         *)
(* An exception that leaves a handler is not caught anywhere on the way    *)
(* out of the reactor loop: it ends the process.  `raised` records it.     *)
(***************************************************************************)
EXTENDS Integers, Sequences, FiniteSets, TLC

VARIABLES
    attempt_count,    \* the value the next next(self.attempt_count) yields
    _check_scheduled, \* ExponentialBackoff._check_scheduled
    scheduler,        \* delays of the one-shot check commands pending in the reactor scheduler
    connected,        \* connection.is_connected()
    servers,          \* position in the cyclic server list
    real_nickname,    \* connection.get_nickname()
    channels,         \* SingleServerIRCBot.channels: channel name -> Channel
    started,          \* BridgeIrcBot.start() has been called
    raised,           \* the exception that ended the bridge process, "none" while it runs
    reason,           \* the message of an ircBotException that ended the bridge process
    message_queue,    \* the multiprocessing Queue shared by the two processes
    privmsgs,         \* the calls made to connection.privmsg, in order
    bridge_client,    \* urbit_client.client of the bridge process
    listener_client,  \* urbit_client.client of the listener process
    listener_raised,  \* the exception that ended the listener process
    posted,           \* the calls made to Quinnat.post_message that returned, in order
    run_calls,        \* history: number of calls of ExponentialBackoff.run
    connects,         \* history: number of successful connects
    disconnects,      \* history: number of disconnect events handled by _on_disconnect
    failed,           \* history: number of connect attempts that failed
    jumps,            \* history: number of calls of jump_server
    decode_failures,  \* history: number of UnicodeDecodeErrors caught by send_message
    waiting,          \* history: for every queued message, what was enqueued and when
    last,             \* history: the event handled by the last step
    nevents           \* history: number of steps taken

vars == <<attempt_count, _check_scheduled, scheduler, connected, servers,
          real_nickname, channels, started, raised, reason, message_queue, privmsgs,
          bridge_client, listener_client, listener_raised, posted,
          run_calls, connects, disconnects, failed, jumps, decode_failures,
          waiting, last, nevents>>

-----------------------------------------------------------------------------
(* Bounds of the model *)

MaxEvents == 3       \* tracker events handled in one run
JitterSteps == 5     \* random.random() is drawn from {0/n, .., (n-1)/n}
MaxNames == 1        \* nicks in one name reply
MaxQueue == 2        \* messages put on the relay queue in one run
MaxPosted == 2       \* messages posted to Urbit in one run
MaxLag == 1          \* drain ticks that find a queued message not yet written to the pipe
MaxAttempt == 8      \* attempt numbers for which the delay is computed

(* Program constants *)

min_interval == 3
max_interval == 5
RetryCeiling == 5
NumServers == 1

Nickname == "bot"
Nicks == {"bot", "al", "Al"}
ChannelNames == {"#a", "#b"}
UserModes == {"o", "v"}

Max(a, b) == IF a >= b THEN a ELSE b
Min(a, b) == IF a <= b THEN a ELSE b
Without(seq, i) == SubSeq(seq, 1, i - 1) \o SubSeq(seq, i + 1, Len(seq))


-----------------------------------------------------------------------------
(* IRCDict: a dict whose keys compare with IRC case folding.  A dict is    *)
(* modelled by the function from its keys, stored folded, to its values.   *)

Fold(key) == IF key = "Al" THEN "al" ELSE key

EmptyDict == [k \in {} |-> k]

DictSet(d, key, value) ==
    [k \in DOMAIN d \cup {Fold(key)} |-> IF k = Fold(key) THEN value ELSE d[k]]

DictDel(d, key) == [k \in DOMAIN d \ {Fold(key)} |-> d[k]]

HasKey(d, key) == Fold(key) \in DOMAIN d

-----------------------------------------------------------------------------
(* irc.bot.Channel, as irc_bot.py uses it.  users is the key list of the   *)
(* _users dict in insertion order; mode_users[m] is the key set of the     *)
(* dict of the nicks holding user mode m; modes is the dict of channel     *)
(* modes.                                                                  *)

Channel == [users |-> <<>>, mode_users |-> [m \in UserModes |-> {}], modes |-> EmptyDict]

Members(ch) == {ch.users[i] : i \in DOMAIN ch.users}

has_user(ch, nick) == Fold(nick) \in Members(ch)

\* add_user without the dict's key lookup
add_user_again(ch, nick) == [ch EXCEPT !.users = Append(@, Fold(nick))]

add_user(ch, nick) ==
    IF has_user(ch, nick) THEN ch
    ELSE [ch EXCEPT !.users = Append(@, Fold(nick))]

\* remove_user that pops the nick from _users alone
remove_user_only(ch, nick) ==
    [ch EXCEPT !.users = SelectSeq(@, LAMBDA u : u # Fold(nick))]

remove_user(ch, nick) ==
    [ch EXCEPT !.users = SelectSeq(@, LAMBDA u : u # Fold(nick)),
               !.mode_users = [m \in UserModes |-> @[m] \ {Fold(nick)}]]

\* change_nick that renames in _users alone
change_nick_only(ch, before, after) ==
    LET popped == SelectSeq(ch.users, LAMBDA u : u # Fold(before))
    IN  [ch EXCEPT
            !.users = IF Fold(after) \in {popped[i] : i \in DOMAIN popped}
                      THEN popped ELSE Append(popped, Fold(after))]

change_nick(ch, before, after) ==
    LET popped == SelectSeq(ch.users, LAMBDA u : u # Fold(before))
        held(m) == Fold(before) \in ch.mode_users[m]
    IN  [ch EXCEPT
            !.users = IF Fold(after) \in {popped[i] : i \in DOMAIN popped}
                      THEN popped ELSE Append(popped, Fold(after)),
            !.mode_users = [m \in UserModes |->
                               IF held(m) THEN (@[m] \ {Fold(before)}) \cup {Fold(after)}
                               ELSE @[m]]]

set_mode(ch, mode, value) ==
    IF mode \in UserModes
    THEN [ch EXCEPT !.mode_users[mode] = @ \cup {Fold(value)}]
    ELSE [ch EXCEPT !.modes = [k \in DOMAIN @ \cup {mode} |-> IF k = mode THEN value ELSE @[k]]]

clear_mode(ch, mode, value) ==
    IF mode \in UserModes
    THEN [ch EXCEPT !.mode_users[mode] = @ \ {Fold(value)}]
    ELSE [ch EXCEPT !.modes = [k \in DOMAIN @ \ {mode} |-> @[k]]]

-----------------------------------------------------------------------------
(* The state the handlers of the bridge process read and write, as one     *)
(* record, so that a handler is the composition of the calls it makes.     *)

Bot == [attempt_count |-> attempt_count, _check_scheduled |-> _check_scheduled,
        scheduler |-> scheduler, connected |-> connected, servers |-> servers,
        real_nickname |-> real_nickname, channels |-> channels, raised |-> raised,
        reason |-> reason,
        run_calls |-> run_calls, connects |-> connects,
        disconnects |-> disconnects, failed |-> failed, jumps |-> jumps]

SetBot(b) ==
    /\ attempt_count' = b.attempt_count
    /\ _check_scheduled' = b._check_scheduled
    /\ scheduler' = b.scheduler
    /\ connected' = b.connected
    /\ servers' = b.servers
    /\ real_nickname' = b.real_nickname
    /\ channels' = b.channels
    /\ raised' = b.raised
    /\ reason' = b.reason
    /\ run_calls' = b.run_calls
    /\ connects' = b.connects
    /\ disconnects' = b.disconnects
    /\ failed' = b.failed
    /\ jumps' = b.jumps

Raise(b, exception) == [b EXCEPT !.raised = exception]

\* raise ircBotException(message)
ircBotException(b, message) ==
    [b EXCEPT !.raised = "ircBotException", !.reason = message]

Jitters == 0 .. (JitterSteps - 1)

-----------------------------------------------------------------------------
(* ExponentialBackoff *)

\* the delay with the floor at min_interval taken before the jitter
backoff_interval_floored_first(attempt, jitter) ==
    LET intvl == Max(Min(2 ^ attempt - 1, max_interval), min_interval)
    IN  (intvl * jitter) \div JitterSteps

\* lines 45-54: the delay for the attempt number drawn at line 45
backoff_interval(attempt, jitter) ==
    LET intvl == Min(2 ^ attempt - 1, max_interval)
        jittered == (intvl * jitter) \div JitterSteps
    IN  Max(jittered, min_interval)

\* run without the check of _check_scheduled at line 42
run_unguarded(b, jitter) ==
    LET n == b.attempt_count
        counted == [b EXCEPT !.attempt_count = n + 1, !.run_calls = @ + 1]
    IN  IF n > RetryCeiling
        THEN ircBotException(counted, "Failed to reconnect to server.")
        ELSE [counted EXCEPT !.attempt_count = n + 2,
                             !.scheduler = Append(@, backoff_interval(n + 1, jitter)),
                             !._check_scheduled = TRUE]

run(b, jitter) ==
    LET n == b.attempt_count
        counted == [b EXCEPT !.attempt_count = n + 1, !.run_calls = @ + 1]
    IN  IF n > RetryCeiling
        THEN ircBotException(counted, "Failed to reconnect to server.")
        ELSE IF b._check_scheduled THEN counted
        ELSE [counted EXCEPT !.attempt_count = n + 2,
                             !.scheduler = Append(@, backoff_interval(n + 1, jitter)),
                             !._check_scheduled = TRUE]

-----------------------------------------------------------------------------
(* SingleServerIRCBot: connection handling *)

\* _on_disconnect without the reset of self.channels at line 154
_on_disconnect_keeping(b, jitter) ==
    run([b EXCEPT !.disconnects = @ + 1], jitter)

_on_disconnect(b, jitter) ==
    run([b EXCEPT !.channels = EmptyDict, !.disconnects = @ + 1], jitter)

\* _connect that swallows ServerConnectionError: no disconnect event
_connect_silent(b, ok, jitter) ==
    LET c == [b EXCEPT !.real_nickname = Nickname]
    IN  IF ok THEN [c EXCEPT !.connected = TRUE, !.connects = @ + 1]
        ELSE [c EXCEPT !.failed = @ + 1]

\* ok: whether the socket could be opened.  ServerConnection.connect sets the
\* nickname before it opens the socket.
_connect(b, ok, jitter) ==
    LET c == [b EXCEPT !.real_nickname = Nickname]
    IN  IF ok THEN [c EXCEPT !.connected = TRUE, !.connects = @ + 1]
        ELSE _on_disconnect([c EXCEPT !.failed = @ + 1], jitter)

jump_server(b, ok, jitter) ==
    LET j == [b EXCEPT !.jumps = @ + 1]
        d == IF j.connected
             THEN _on_disconnect([j EXCEPT !.connected = FALSE], jitter)
             ELSE j
    IN  IF d.raised # "none" THEN d
        ELSE _connect([d EXCEPT !.servers = (@ + 1) % NumServers], ok, jitter)

\* check without the test of is_connected at line 61
check_unconditional(b, ok, jitter1, jitter2) ==
    LET c == [b EXCEPT !._check_scheduled = FALSE]
        r == run(c, jitter1)
    IN  IF r.raised # "none" THEN r
        ELSE jump_server(r, ok, jitter2)

check(b, ok, jitter1, jitter2) ==
    LET c == [b EXCEPT !._check_scheduled = FALSE]
        r == run(c, jitter1)
    IN  IF c.connected THEN c
        ELSE IF r.raised # "none" THEN r
        ELSE jump_server(r, ok, jitter2)

\* BridgeIrcBot.on_nicknameinuse: the server answers that the nickname is taken
on_nicknameinuse(b) == ircBotException(b, "Nickname in use")

\* SingleServerIRCBot.on_ctcp: the replies to VERSION and PING go out on the
\* connection and on_dccchat does nothing; arguments[1] of a DCC request
\* without argument raises IndexError
on_ctcp(b, arguments) ==
    IF arguments[1] = "VERSION" THEN b
    ELSE IF arguments[1] = "PING" THEN b
    ELSE IF arguments[1] = "DCC"
    THEN IF Len(arguments) < 2 THEN Raise(b, "IndexError") ELSE b
    ELSE b

-----------------------------------------------------------------------------
(* SingleServerIRCBot: the channel tracker.  self.channels[ch] on a channel *)
(* that is no key raises KeyError.                                          *)

_on_join(b, ch, nick) ==
    LET made == IF nick = b.real_nickname THEN DictSet(b.channels, ch, Channel)
                ELSE b.channels
    IN  IF ~HasKey(made, ch) THEN Raise(b, "KeyError")
        ELSE [b EXCEPT !.channels = DictSet(made, ch, add_user(made[Fold(ch)], nick))]

\* _on_kick that treats the bot's own kick like any other
_on_kick_keeping(b, channel, nick) ==
    IF ~HasKey(b.channels, channel) THEN Raise(b, "KeyError")
    ELSE [b EXCEPT !.channels = DictSet(@, channel, remove_user(@[Fold(channel)], nick))]

_on_kick(b, channel, nick) ==
    IF ~HasKey(b.channels, channel) THEN Raise(b, "KeyError")
    ELSE IF nick = b.real_nickname
    THEN [b EXCEPT !.channels = DictDel(@, channel)]
    ELSE [b EXCEPT !.channels = DictSet(@, channel, remove_user(@[Fold(channel)], nick))]

\* irc.client.is_channel: the target starts with one of "#&+!"
is_channel(t) == t \in ChannelNames

\* lines 181-183 on the parsed modes, a sequence of <<sign, mode, argument>>
RECURSIVE apply_modes(_, _)
apply_modes(ch, modes) ==
    IF modes = <<>> THEN ch
    ELSE LET m == Head(modes)
             done == IF m[1] = "+" THEN set_mode(ch, m[2], m[3])
                     ELSE clear_mode(ch, m[2], m[3])
         IN  apply_modes(done, Tail(modes))

_on_mode(b, t, modes) ==
    IF ~is_channel(t) THEN b
    ELSE IF ~HasKey(b.channels, t) THEN Raise(b, "KeyError")
    ELSE [b EXCEPT !.channels = DictSet(@, t, apply_modes(@[Fold(t)], modes))]

\* connection.features.prefix
prefix == [p \in {"@", "+"} |-> IF p = "@" THEN "o" ELSE "v"]

\* lines 201-211 on the words of the nick list, each [prefix, nick]: its first
\* character when that is a prefix character, and the rest
RECURSIVE add_names(_, _)
add_names(ch, nick_list) ==
    IF nick_list = <<>> THEN ch
    ELSE LET word == Head(nick_list)
             moded == IF word.prefix \in DOMAIN prefix
                      THEN set_mode(ch, prefix[word.prefix], word.nick)
                      ELSE ch
         IN  add_names(add_user(moded, word.nick), Tail(nick_list))

\* _on_namreply without the return for the channel token "*" at line 196
_on_namreply_any(b, channel, nick_list) ==
    IF nick_list = <<>> THEN b
    ELSE IF ~HasKey(b.channels, channel) THEN Raise(b, "KeyError")
    ELSE [b EXCEPT !.channels = DictSet(@, channel, add_names(@[Fold(channel)], nick_list))]

_on_namreply(b, channel, nick_list) ==
    IF channel = "*" THEN b
    ELSE IF nick_list = <<>> THEN b
    ELSE IF ~HasKey(b.channels, channel) THEN Raise(b, "KeyError")
    ELSE [b EXCEPT !.channels = DictSet(@, channel, add_names(@[Fold(channel)], nick_list))]

_on_nick(b, before, after) ==
    [b EXCEPT !.channels = [c \in DOMAIN @ |->
                               IF has_user(@[c], before) THEN change_nick(@[c], before, after)
                               ELSE @[c]]]

\* _on_part that resets the channel map when the bot leaves a channel
_on_part_all(b, channel, nick) ==
    IF ~HasKey(b.channels, channel) THEN Raise(b, "KeyError")
    ELSE IF nick = b.real_nickname
    THEN [b EXCEPT !.channels = EmptyDict]
    ELSE [b EXCEPT !.channels = DictSet(@, channel, remove_user(@[Fold(channel)], nick))]

_on_part(b, channel, nick) ==
    IF ~HasKey(b.channels, channel) THEN Raise(b, "KeyError")
    ELSE IF nick = b.real_nickname
    THEN [b EXCEPT !.channels = DictDel(@, channel)]
    ELSE [b EXCEPT !.channels = DictSet(@, channel, remove_user(@[Fold(channel)], nick))]

_on_quit(b, nick) ==
    [b EXCEPT !.channels = [c \in DOMAIN @ |->
                               IF has_user(@[c], nick) THEN remove_user(@[c], nick)
                               ELSE @[c]]]

\* ServerConnection._process_line, before the handlers run: a nick event of
\* the bot's own nick renames the connection
track_nickname(b, before, after) ==
    IF before = b.real_nickname THEN [b EXCEPT !.real_nickname = after] ELSE b

-----------------------------------------------------------------------------
(* The relay: the configured pairings, the Urbit session of a process, and  *)
(* the two directions.                                                      *)

\* instance["channels"]
Pairings ==
    << [irc_channel |-> "#a", resource_ship |-> "~zod", urbit_channel |-> "chat"],
       [irc_channel |-> "#a", resource_ship |-> "~bus", urbit_channel |-> "chat"],
       [irc_channel |-> "#b", resource_ship |-> "~zod", urbit_channel |-> "news"] >>

PubmsgTargets == {"#a", "#b", "#c"}
Ships == {"~zod", "~bus", "~nec"}
Resources == {"chat", "news"}
Texts == {"hi", "yo"}

\* The Urbit side of a process: [client, posted, decode_failures, raised]
\* urbit_client.connect assigns self.client and returns nothing
urbit_connect(u) == [value |-> "None", u |-> [u EXCEPT !.client = "Quinnat"]]

\* self.client.ship.delete(); self.client = self.connect()
reconnect(u) ==
    IF u.client = "None" THEN [u EXCEPT !.raised = "AttributeError"]
    ELSE LET c == urbit_connect(u) IN [c.u EXCEPT !.client = c.value]

\* ok: post_message returns; otherwise it raises UnicodeDecodeError
send_message(u, resource_ship, channel, message, ok) ==
    IF u.client = "None" THEN [u EXCEPT !.raised = "AttributeError"]
    ELSE IF ok
    THEN [u EXCEPT !.posted = Append(@, [resource_ship |-> resource_ship,
                                         channel |-> channel, text |-> message])]
    ELSE reconnect([u EXCEPT !.decode_failures = @ + 1])

\* a lookup that keeps every pairing, whatever its IRC channel
irc_pairings_all(target, list) == list

\* lines 324-327: the pairings of an IRC channel, in order
RECURSIVE irc_pairings(_, _)
irc_pairings(target, list) ==
    IF list = <<>> THEN <<>>
    ELSE IF Head(list).irc_channel = target
    THEN <<Head(list)>> \o irc_pairings(target, Tail(list))
    ELSE irc_pairings(target, Tail(list))

\* line 53: the pairings of a host ship, in order
RECURSIVE ship_pairings(_, _)
ship_pairings(host_ship, list) ==
    IF list = <<>> THEN <<>>
    ELSE IF Head(list).resource_ship = host_ship
    THEN <<Head(list)>> \o ship_pairings(host_ship, Tail(list))
    ELSE ship_pairings(host_ship, Tail(list))

\* lines 329-334: source is <<nick, user@host>>, the parts of the mask around "!";
\* the text sent is <<nick, ": ", text>>, the parts of the formatted string
RECURSIVE send_all(_, _, _, _, _)
send_all(u, urbit_channels, source, text, oks) ==
    IF urbit_channels = <<>> \/ u.raised # "none" THEN u
    ELSE LET urbit_channel == Head(urbit_channels)
             sent == send_message(u, urbit_channel.resource_ship,
                                  urbit_channel.urbit_channel,
                                  <<source[1], ": ", text>>, Head(oks))
         IN  send_all(sent, Tail(urbit_channels), source, text, Tail(oks))

on_pubmsg(u, target, source, text, oks) ==
    LET urbit_channels == irc_pairings(target, Pairings)
    IN  IF Len(urbit_channels) > 0
        THEN send_all(u, urbit_channels, source, text, oks)
        ELSE u

\* urbit_message_handler: the tuples it puts on the queue, in order
RECURSIVE puts(_, _)
puts(matched_ships, message) ==
    IF matched_ships = <<>> THEN <<>>
    ELSE LET matched_ship == Head(matched_ships)
             rest == puts(Tail(matched_ships), message)
         IN  IF matched_ship.urbit_channel = message.resource_name
             THEN << <<matched_ship.irc_channel,
                       <<message.author, ": ", message.full_text>> >> >> \o rest
             ELSE rest

urbit_message_handler(message) ==
    LET matched_ships == ship_pairings(message.host_ship, Pairings)
    IN  IF Len(matched_ships) > 0 THEN puts(matched_ships, message) ELSE <<>>

-----------------------------------------------------------------------------
(* Initial state: the objects are constructed, start() has not been called. *)

\* what a step handled: the event's type, target and arguments, whether a
\* disconnect event was dispatched in it, and how many channels were tracked
\* when it was
Event(type, target, args, disconnect) ==
    [type |-> type, target |-> target, args |-> args, disconnect |-> disconnect,
     had |-> IF disconnect THEN Cardinality(DOMAIN channels) ELSE 0]

Init ==
    /\ attempt_count = 1
    /\ _check_scheduled = FALSE
    /\ scheduler = <<>>
    /\ connected = FALSE
    /\ servers = 0
    /\ real_nickname = Nickname
    /\ channels = EmptyDict
    /\ started = FALSE
    /\ raised = "none"
    /\ reason = ""
    /\ message_queue = <<>>
    /\ privmsgs = <<>>
    /\ bridge_client = "Quinnat"
    /\ listener_client = "Quinnat"
    /\ listener_raised = "none"
    /\ posted = <<>>
    /\ run_calls = 0
    /\ connects = 0
    /\ disconnects = 0
    /\ failed = 0
    /\ jumps = 0
    /\ decode_failures = 0
    /\ waiting = <<>>
    /\ last = Event("init", "", <<>>, FALSE)
    /\ nevents = 0

relay_vars == <<message_queue, privmsgs, bridge_client, listener_client,
                listener_raised, posted, decode_failures, waiting>>

Running == started /\ raised = "none"

-----------------------------------------------------------------------------
(* Connection events of the bridge process *)

\* SingleServerIRCBot.start: _connect(), then the reactor loop
Start ==
    /\ ~started
    /\ \E ok \in BOOLEAN, jitter \in Jitters :
          LET c == _connect(Bot, ok, jitter)
          IN  /\ SetBot(c)
              /\ last' = Event("start", "", <<>>, ~ok)
    /\ started' = TRUE
    /\ UNCHANGED <<relay_vars, nevents>>

\* the connection drops: ServerConnection.disconnect dispatches "disconnect"
Disconnect ==
    /\ Running /\ connected
    /\ \E jitter \in Jitters :
          SetBot(_on_disconnect([Bot EXCEPT !.connected = FALSE], jitter))
    /\ last' = Event("disconnect", "", <<>>, TRUE)
    /\ UNCHANGED <<started, relay_vars, nevents>>

\* the scheduler runs a pending check command, which it has removed; a check
\* on a connection that is up draws no random number, and neither does a
\* connect that succeeds
CheckFires ==
    /\ Running
    /\ \E i \in DOMAIN scheduler, ok \in BOOLEAN,
          jitter1 \in IF connected THEN {0} ELSE Jitters :
       \E jitter2 \in IF connected \/ ok THEN {0} ELSE Jitters :
          LET popped == [Bot EXCEPT !.scheduler = Without(@, i)]
              c == check(popped, ok, jitter1, jitter2)
          IN  /\ SetBot(c)
              /\ last' = Event("check", "", <<>>, c.run_calls > Bot.run_calls + 1)
    /\ UNCHANGED <<started, relay_vars, nevents>>

\* the server's reply to the registration says the nickname is in use
OnNicknameInUse ==
    /\ Running /\ connected
    /\ SetBot(on_nicknameinuse(Bot))
    /\ last' = Event("nicknameinuse", "", <<>>, FALSE)
    /\ UNCHANGED <<started, relay_vars, nevents>>

\* the arguments of a CTCP request: the command, and what follows it
CtcpArguments ==
    {<<"VERSION">>, <<"PING">>, <<"PING", "1">>, <<"DCC">>, <<"DCC", "CHAT chat 0 0">>}

\* a CTCP request arrives on the connection
OnCtcp ==
    /\ Running /\ connected
    /\ \E arguments \in CtcpArguments :
          /\ SetBot(on_ctcp(Bot, arguments))
          /\ last' = Event("ctcp", "", arguments, FALSE)
    /\ UNCHANGED <<started, relay_vars, nevents>>

-----------------------------------------------------------------------------
(* Events the server sends while the connection is up *)

Serving == Running /\ connected /\ nevents < MaxEvents

Handled(b, event) ==
    /\ SetBot(b)
    /\ last' = event
    /\ nevents' = nevents + 1
    /\ UNCHANGED <<started, relay_vars>>

OnJoin ==
    /\ Serving
    /\ \E ch \in ChannelNames, nick \in Nicks :
          Handled(_on_join(Bot, ch, nick), Event("join", ch, <<nick>>, FALSE))

OnKick ==
    /\ Serving
    /\ \E ch \in ChannelNames, nick \in Nicks :
          Handled(_on_kick(Bot, ch, nick), Event("kick", ch, <<nick>>, FALSE))

ModeChanges ==
    {<<sign, mode, nick>> : sign \in {"+", "-"}, mode \in UserModes, nick \in Nicks}
        \cup {<<sign, "m", "None">> : sign \in {"+", "-"}}

OnMode ==
    /\ Serving
    /\ \E t \in ChannelNames \cup {real_nickname}, m \in ModeChanges :
          Handled(_on_mode(Bot, t, <<m>>), Event("mode", t, m, FALSE))

Words == [prefix : {"@", "+", ""}, nick : Nicks]

NickLists == UNION {[1 .. n -> Words] : n \in 0 .. MaxNames}

OnNamreply ==
    /\ Serving
    /\ \E ch \in ChannelNames \cup {"*"}, nick_list \in NickLists :
          Handled(_on_namreply(Bot, ch, nick_list),
                  Event("namreply", ch,
                        [i \in DOMAIN nick_list |-> nick_list[i].nick], FALSE))

OnNick ==
    /\ Serving
    /\ \E before \in Nicks, after \in Nicks :
          Handled(_on_nick(track_nickname(Bot, before, after), before, after),
                  Event("nick", "", <<before, after>>, FALSE))

OnPart ==
    /\ Serving
    /\ \E ch \in ChannelNames, nick \in Nicks :
          Handled(_on_part(Bot, ch, nick), Event("part", ch, <<nick>>, FALSE))

OnQuit ==
    /\ Serving
    /\ \E nick \in Nicks :
          Handled(_on_quit(Bot, nick), Event("quit", "", <<nick>>, FALSE))

-----------------------------------------------------------------------------
(* The relay *)

bot_vars == <<attempt_count, _check_scheduled, scheduler, connected, servers,
              real_nickname, channels, reason, run_calls, connects, disconnects,
              failed, jumps>>

\* a public message arrives on the IRC connection
OnPubmsg ==
    /\ Running /\ connected
    /\ Len(posted) < MaxPosted
    /\ \E target \in PubmsgTargets, nick \in Nicks, text \in Texts,
          oks \in [1 .. 2 -> BOOLEAN] :
          LET u == on_pubmsg([client |-> bridge_client, posted |-> posted,
                              decode_failures |-> decode_failures, raised |-> raised],
                             target, <<nick, "user@host">>, text, oks)
          IN  /\ bridge_client' = u.client
              /\ posted' = u.posted
              /\ decode_failures' = u.decode_failures
              /\ raised' = u.raised
              /\ last' = Event("pubmsg", target, <<nick>>, FALSE)
    /\ UNCHANGED <<bot_vars, started, message_queue, privmsgs, listener_client,
                   listener_raised, waiting, nevents>>

\* a get that takes the newest message
queue_get_newest(queue) ==
    [data |-> queue[Len(queue)], rest |-> SubSeq(queue, 1, Len(queue) - 1)]

\* Queue.get: the oldest message, and the queue without it
queue_get(queue) == [data |-> Head(queue), rest |-> Tail(queue)]

\* the position in the queue of the message a get took
Taken(queue, got) ==
    LET fits(i) == queue[i] = got.data /\ Without(queue, i) = got.rest
    IN  CHOOSE i \in DOMAIN queue : fits(i) /\ \A j \in 1 .. (i - 1) : ~fits(j)

\* the history of the messages left in the queue after a tick that took the
\* i-th: each has seen one more tick
Ticked(history, i) ==
    LET left == Without(history, i)
    IN  [k \in DOMAIN left |-> [left[k] EXCEPT !.ticks = @ + 1, !.takes = @ + 1]]

\* the history of the queued messages after a tick that took none
Waited(history) ==
    [k \in DOMAIN history |-> [history[k] EXCEPT !.ticks = @ + 1]]

\* the ticks that took no message since the k-th queued message was put
Lag(history, k) == history[k].ticks - history[k].takes

\* Queue.empty: put hands the message to the feeder thread of the queue and
\* returns, and empty polls the pipe the feeder thread writes to.  written:
\* the feeder thread has written the oldest message to the pipe.
queue_empty(queue, written) == queue = <<>> \/ ~written

\* BridgeIrcBot.check_queue, run by the scheduler every 0.1 s.  privmsg on a
\* connection without a socket raises ServerNotConnectedError.  The event
\* records what empty() answered.
check_queue ==
    /\ Running
    /\ \E written \in BOOLEAN :
          IF queue_empty(message_queue, written)
          THEN /\ \A k \in DOMAIN waiting : Lag(waiting, k) < MaxLag
               /\ waiting' = Waited(waiting)
               /\ last' = Event("tick", "", <<"empty">>, FALSE)
               /\ UNCHANGED <<message_queue, privmsgs, raised>>
          ELSE LET got == queue_get(message_queue)
                   put == waiting[Taken(message_queue, got)]
               IN  /\ message_queue' = got.rest
                   /\ privmsgs' = Append(privmsgs,
                                         [target |-> got.data[1], text |-> got.data[2],
                                          sent |-> connected, put |-> put,
                                          tick |-> put.ticks + 1,
                                          take |-> put.takes + 1])
                   /\ waiting' = Ticked(waiting, Taken(message_queue, got))
                   /\ raised' = IF connected THEN raised ELSE "ServerNotConnectedError"
                   /\ last' = Event("tick", "", <<"message">>, FALSE)
    /\ UNCHANGED <<bot_vars, started, bridge_client, listener_client,
                   listener_raised, posted, decode_failures, nevents>>

\* Queue(): maxsize is 0, and a Queue whose maxsize is not positive has no
\* capacity; put waits while the queue is full
maxsize == 0

full(queue) == maxsize > 0 /\ Len(queue) >= maxsize

Messages == [author : {"~nec"}, host_ship : Ships, resource_name : Resources,
             full_text : {"hi"}]

\* the listener process: a message arrives in client.listen
Listen ==
    /\ listener_raised = "none"
    /\ \E message \in Messages :
          LET new == urbit_message_handler(message)
          IN  /\ Len(message_queue) + Len(privmsgs) + Len(new) <= MaxQueue
              /\ \A i \in DOMAIN new :
                    ~full(message_queue \o SubSeq(new, 1, i - 1))
              /\ message_queue' = message_queue \o new
              /\ waiting' = waiting \o
                     [i \in 1 .. Len(new) |->
                         [data |-> new[i], ahead |-> Len(message_queue) + i - 1,
                          nth |-> Len(privmsgs) + Len(message_queue) + i,
                          ticks |-> 0, takes |-> 0]]
    /\ last' = Event("listen", "", <<>>, FALSE)
    /\ UNCHANGED <<bot_vars, started, raised, privmsgs, bridge_client,
                   listener_client, listener_raised, posted, decode_failures, nevents>>

\* the listener process: client.listen raises UnicodeDecodeError; reconnect,
\* and the loop calls self.urbit_client.client.listen again
ListenDecodeError ==
    /\ listener_raised = "none"
    /\ LET u == reconnect([client |-> listener_client, raised |-> "none"])
       IN  /\ listener_client' = u.client
           /\ listener_raised' = IF u.client = "None" THEN "AttributeError"
                                 ELSE u.raised
    /\ last' = Event("listen_error", "", <<>>, FALSE)
    /\ UNCHANGED <<bot_vars, started, raised, message_queue, privmsgs,
                   bridge_client, posted, decode_failures, waiting, nevents>>

-----------------------------------------------------------------------------
(* Specifications *)

\* the IRC bot: connection handling and the channel tracker
Next ==
    \/ Start \/ Disconnect \/ CheckFires \/ OnNicknameInUse \/ OnCtcp
    \/ OnJoin \/ OnKick \/ OnMode \/ OnNamreply \/ OnNick \/ OnPart \/ OnQuit

Spec == Init /\ [][Next]_vars

\* the tracker under join, part, kick, quit and nick-change events alone
NextMembership ==
    \/ Start
    \/ OnJoin \/ OnKick \/ OnNick \/ OnPart \/ OnQuit

SpecMembership == Init /\ [][NextMembership]_vars

\* Urbit to IRC: the listener process, the queue and the drain tick
NextRelay ==
    \/ Start \/ Disconnect \/ CheckFires \/ OnNicknameInUse \/ OnCtcp
    \/ Listen \/ ListenDecodeError \/ check_queue

SpecRelay == Init /\ [][NextRelay]_vars

\* IRC to Urbit: public messages posted through the Urbit session
NextSink ==
    \/ Start \/ Disconnect \/ CheckFires \/ OnNicknameInUse \/ OnCtcp
    \/ OnPubmsg \/ ListenDecodeError

SpecSink == Init /\ [][NextSink]_vars

-----------------------------------------------------------------------------
(* The reconnect strategy *)

\* run has raised the exhaustion error
Exhausted ==
    raised = "ircBotException" /\ reason = "Failed to reconnect to server."

\* C1: on a fresh strategy, with the connection never connected, the
\* exhaustion error is raised by the sixth call of run and by no earlier one.
C1_ExhaustedOnSixthCall ==
    (Exhausted /\ connects = 0) => run_calls = 6

\* C2: at most one check is pending in the scheduler, and _check_scheduled
\* is true exactly when one is pending.
C2_OnePendingCheck ==
    /\ Len(scheduler) <= 1
    /\ _check_scheduled <=> (Len(scheduler) = 1)

\* a failed connect dispatched a disconnect event while the check that run
\* had just scheduled was pending
C2_Witness ==
    /\ last.type = "check" /\ last.disconnect
    /\ raised = "none"
    /\ Len(scheduler) = 1 /\ _check_scheduled

-----------------------------------------------------------------------------
(* The relay *)

\* C3, as claimed: a message put on the queue is passed to privmsg by the
\* first drain tick after it was put, its target and text unchanged, however
\* many messages were waiting.
C3_SentWithinOneTick ==
    /\ \A i \in DOMAIN waiting : waiting[i].ticks = 0
    /\ \A i \in DOMAIN privmsgs :
          /\ privmsgs[i].tick = 1
          /\ <<privmsgs[i].target, privmsgs[i].text>> = privmsgs[i].put.data

\* a drain tick has found empty() false
TickFoundMessage ==
    last'.type = "tick" /\ last'.args = <<"message">> /\ vars' # vars

\* C3, amended: every drain tick that finds empty() false takes the oldest
\* message from the queue and passes it to privmsg, so a message put behind k
\* waiting messages is passed to privmsg by the (k+1)-th tick after the put
\* that finds empty() false, and by no other, its target and text unchanged;
\* that tick is the (k+1)-th after the put or a later one.
C3_SentInTurn ==
    [][/\ TickFoundMessage =>
             /\ message_queue # <<>>
             /\ message_queue' = Tail(message_queue)
             /\ privmsgs' = Append(privmsgs, privmsgs'[Len(privmsgs')])
             /\ privmsgs'[Len(privmsgs')].put.data = Head(message_queue)
       /\ \A i \in DOMAIN waiting' :
             /\ waiting'[i].data = message_queue'[i]
             /\ waiting'[i].ahead - waiting'[i].takes = i - 1
             /\ waiting'[i].ticks >= waiting'[i].takes
       /\ \A i \in DOMAIN privmsgs' :
             /\ privmsgs'[i].take = privmsgs'[i].put.ahead + 1
             /\ privmsgs'[i].tick >= privmsgs'[i].take
             /\ <<privmsgs'[i].target, privmsgs'[i].text>> = privmsgs'[i].put.data]_vars

\* a message put behind a waiting one has been sent on the connection, after
\* a tick had found the queue empty while a message was in it
C3_Witness ==
    /\ \E i \in DOMAIN privmsgs :
          /\ privmsgs[i].put.ahead = 1
          /\ privmsgs[i].sent
    /\ \E j \in DOMAIN privmsgs : privmsgs[j].tick > privmsgs[j].put.ahead + 1
    /\ raised = "none"

\* C4: after send_message has caught a decode failure, the bridge process
\* holds a working Urbit session and has not crashed on it.
C4_SinkSurvivesDecodeFailure ==
    decode_failures > 0 => (bridge_client = "Quinnat" /\ raised # "AttributeError")

-----------------------------------------------------------------------------
(* The channel tracker *)

\* C5: after a disconnect event is handled, the channel map is empty.
C5_DisconnectEmptiesChannels == last.disconnect => DOMAIN channels = {}

\* the connection dropped while channels were tracked
C5_Witness ==
    /\ last.type = "disconnect" /\ last.had > 0
    /\ DOMAIN channels = {}

\* C6, as claimed: every tracked channel has the bot's current nickname in
\* its member set (a channel that is not tracked has no member set).
C6_TrackedIffMember ==
    \A c \in DOMAIN channels : has_user(channels[c], real_nickname)

\* the bot's own quit, or a part, kick or nick change that names the bot's
\* nickname in another spelling that folds to it
C6_Excluded ==
    \/ /\ last'.type = "quit"
       /\ Fold(last'.args[1]) = Fold(real_nickname)
    \/ /\ last'.type \in {"part", "kick", "nick"}
       /\ last'.args[1] # real_nickname
       /\ Fold(last'.args[1]) = Fold(real_nickname)

\* C6, amended: every event other than a quit of the bot's own nickname (and
\* other than a part, kick or nick change naming the bot in another letter
\* case) leaves every tracked channel with the bot's current nickname in its
\* member set.
C6_TrackedIffMemberKept ==
    [][(C6_TrackedIffMember /\ ~C6_Excluded) => C6_TrackedIffMember']_vars

\* the bot changed its nickname while it was in a channel
C6_Witness ==
    /\ last.type = "nick" /\ last.args[1] = Nickname
    /\ real_nickname # Nickname
    /\ DOMAIN channels # {}
    /\ C6_TrackedIffMember

NoDuplicates(ch) ==
    \A i, j \in DOMAIN ch.users : i # j => ch.users[i] # ch.users[j]

RolesArePresent(ch) == \A m \in UserModes : ch.mode_users[m] \subseteq Members(ch)

\* C7: under join, part, kick, quit and nick-change events, no tracked
\* channel holds a nickname twice and every role-flag entry names a member.
C7_MembersUniqueRolesPresent ==
    \A c \in DOMAIN channels : NoDuplicates(channels[c]) /\ RolesArePresent(channels[c])

\* a nick change in a channel with two members
C7_Witness ==
    /\ last.type = "nick"
    /\ \E c \in DOMAIN channels :
          /\ Len(channels[c].users) = 2
          /\ has_user(channels[c], last.args[2])

\* C8, as claimed: under all event kinds every role-flag entry of a tracked
\* channel names a nickname in the channel's member set.
C8_RolesArePresent == \A c \in DOMAIN channels : RolesArePresent(channels[c])

\* a mode change that sets a user mode on a nickname that is not in the channel
C8_SetsRoleOnAbsent ==
    /\ last'.type = "mode"
    /\ last'.args[1] = "+" /\ last'.args[2] \in UserModes
    /\ HasKey(channels, last'.target)
    /\ ~has_user(channels[Fold(last'.target)], last'.args[3])

\* C8, amended: every event other than a mode change that sets a role on a
\* nickname outside the channel's member set leaves every role-flag entry
\* naming a member.
C8_RolesArePresentKept ==
    [][(C8_RolesArePresent /\ ~C8_SetsRoleOnAbsent) => C8_RolesArePresent']_vars

\* a mode change has set a role on another member of a tracked channel
C8_Witness ==
    /\ last.type = "mode" /\ last.args[1] = "+" /\ last.args[2] \in UserModes
    /\ Fold(last.args[3]) # Fold(real_nickname)
    /\ HasKey(channels, last.target)
    /\ Fold(last.args[3]) \in channels[Fold(last.target)].mode_users[last.args[2]]
    /\ has_user(channels[Fold(last.target)], last.args[3])

\* a part or kick of the bot's own nickname on a tracked channel is handled
OwnLeave ==
    /\ nevents' = nevents + 1
    /\ last'.type \in {"part", "kick"}
    /\ last'.args[1] = real_nickname
    /\ HasKey(channels, last'.target)

\* C9: after a part or kick of the bot on a tracked channel, that channel is
\* no key of the channel map and every other entry is as it was.
C9_OwnLeaveDropsChannel ==
    [][OwnLeave =>
          /\ DOMAIN channels' = DOMAIN channels \ {Fold(last'.target)}
          /\ \A c \in DOMAIN channels' : channels'[c] = channels[c]]_vars

\* the bot has left one of two tracked channels
C9_Witness ==
    /\ last.type \in {"part", "kick"}
    /\ last.args[1] = real_nickname
    /\ raised = "none"
    /\ DOMAIN channels = ChannelNames \ {last.target}

\* a nick change is handled
NickChange == nevents' = nevents + 1 /\ last'.type = "nick"

\* C10: a nick change (old, new) puts new in the place of old in the member
\* set and in every role of each channel that has old, and leaves the other
\* channels as they were.
C10_NickChangeRenames ==
    [][NickChange =>
          LET old == Fold(last'.args[1])
              new == Fold(last'.args[2])
          IN  /\ DOMAIN channels' = DOMAIN channels
              /\ \A c \in DOMAIN channels :
                    IF old \in Members(channels[c])
                    THEN /\ Members(channels'[c])
                              = (Members(channels[c]) \ {old}) \cup {new}
                         /\ \A m \in UserModes :
                               \A n \in {Fold(k) : k \in Nicks} :
                                   n \in channels'[c].mode_users[m] <=>
                                      IF n = new
                                      THEN {old, new} \cap channels[c].mode_users[m] # {}
                                      ELSE n # old /\ n \in channels[c].mode_users[m]
                         /\ channels'[c].modes = channels[c].modes
                    ELSE channels'[c] = channels[c]]_vars

\* a member that held a role has changed its nickname
C10_Witness ==
    /\ last.type = "nick"
    /\ Fold(last.args[1]) # Fold(last.args[2])
    /\ \E c \in DOMAIN channels :
          /\ Fold(last.args[2]) \in channels[c].mode_users["o"]
          /\ has_user(channels[c], last.args[2])
          /\ ~has_user(channels[c], last.args[1])

-----------------------------------------------------------------------------
(* IRC to Urbit *)

\* the pairings whose irc_channel is the given channel
PairedWith(channel) ==
    {k \in DOMAIN Pairings : Pairings[k].irc_channel = channel}

\* C11: a public message on a channel that is the irc_channel of no pairing
\* causes no call of send_message (nothing is posted, no decode failure is
\* handled, the session is not replaced, nothing is raised), and every message
\* posted for a public message goes to a pairing of the message's channel.
C11_PostedOnlyForPairedChannel ==
    [][last'.type = "pubmsg" =>
          /\ \A i \in (Len(posted) + 1) .. Len(posted') :
                \E k \in PairedWith(last'.target) :
                    /\ posted'[i].resource_ship = Pairings[k].resource_ship
                    /\ posted'[i].channel = Pairings[k].urbit_channel
          /\ PairedWith(last'.target) = {} =>
                /\ posted' = posted
                /\ decode_failures' = decode_failures
                /\ bridge_client' = bridge_client
                /\ raised' = raised]_vars

\* a public message on an unpaired channel was handled after one on a paired
\* channel had been posted
C11_Witness ==
    /\ last.type = "pubmsg"
    /\ PairedWith(last.target) = {}
    /\ Len(posted) = 1
    /\ raised = "none"

-----------------------------------------------------------------------------
(* Urbit to IRC: the queue *)

\* C12: the relay queue has a fixed capacity that the number of queued
\* messages never exceeds, and a put on a full queue is answered with the
\* QueueSaturated error.  (The queue of the program is built without a
\* capacity, and no put is ever answered with an error.)
C12_QueueBounded ==
    Len(message_queue) > 0 =>
        /\ maxsize > 0
        /\ Len(message_queue) <= maxsize

\* C13: every message put on the relay queue is consumed exactly once: what
\* check_queue takes from the queue is sent on the IRC connection, no message
\* is taken twice, and none is taken and still queued; this holds also when
\* the connection is down at the tick that takes the message.
C13_ConsumedExactlyOnce ==
    \A i \in DOMAIN privmsgs :
        /\ privmsgs[i].sent
        /\ \A j \in DOMAIN privmsgs :
              privmsgs[j].put.nth = privmsgs[i].put.nth => j = i
        /\ \A k \in DOMAIN waiting : waiting[k].nth # privmsgs[i].put.nth

-----------------------------------------------------------------------------
(* The delay of a scheduled check *)

\* C14: every delay run passes to the scheduler lies in
\* [min_interval, max_interval], for every attempt number and every jitter in
\* [0, 1); the jitter is applied to the capped interval and the product
\* truncated before the floor at min_interval is taken.
C14_DelayWithinInterval ==
    /\ \A i \in DOMAIN scheduler : scheduler[i] \in min_interval .. max_interval
    /\ \A attempt \in 1 .. MaxAttempt, jitter \in Jitters :
          /\ backoff_interval(attempt, jitter) \in min_interval .. max_interval
          /\ backoff_interval(attempt, jitter)
                = Max((Min(2 ^ attempt - 1, max_interval) * jitter) \div JitterSteps,
                      min_interval)

\* a check is pending whose delay the jitter left above the floor
C14_Witness ==
    \E i \in DOMAIN scheduler :
        /\ scheduler[i] > min_interval
        /\ scheduler[i] < max_interval

-----------------------------------------------------------------------------
(* Name replies *)

\* C15: a name reply whose channel token is "*" changes nothing in the
\* tracker, whatever its nick list: the tracked channels, their member sets
\* and their roles are what they were, and the handler returns without raising.
C15_StarNamreplyChangesNothing ==
    [][(last'.type = "namreply" /\ last'.target = "*") =>
          /\ channels' = channels
          /\ raised' = raised]_vars

\* a name reply for "*" that lists a nick was handled while a channel was
\* tracked
C15_Witness ==
    /\ last.type = "namreply"
    /\ last.target = "*"
    /\ Len(last.args) > 0
    /\ DOMAIN channels # {}
    /\ raised = "none"

-----------------------------------------------------------------------------
(* Reconnecting *)

\* C16: when no connect attempt of the run succeeds, five reconnection
\* attempts (a scheduled check that jumps to the next server and tries to
\* connect) have been made when exhaustion is signalled, and exhaustion is not
\* signalled before the fifth.
C16_FiveAttemptsBeforeExhaustion ==
    (Exhausted /\ connects = 0) => jumps = 5

\* C17: a drop of the connection at which fewer than five disconnect events
\* have been handled, with every connect attempt succeeding, is recovered
\* from: the connection is established again and exhaustion is not signalled,
\* also at a second or later drop.  Exhaustion ends the process, so where it
\* is signalled and no connect attempt has failed, the last drop came after
\* five handled disconnect events.
C17_TransientLossRecovered ==
    (Exhausted /\ failed = 0) => disconnects >= 6

\* C18: a connect attempt that fails in _connect is followed, in the same
\* step, by the handling of one disconnect event: the channel map is reset to
\* empty and run is called once (besides the call the check itself makes when
\* the attempt is made by a check); run draws from the attempt counter and
\* then schedules a check, returns because one is scheduled, or raises
\* exhaustion.
C18_FailedConnectRunsStrategy ==
    [][failed' = failed + 1 =>
          /\ DOMAIN channels' = {}
          /\ disconnects' = disconnects + 1
          /\ run_calls' = run_calls + (IF last'.type = "check" THEN 2 ELSE 1)
          /\ attempt_count' > attempt_count
          /\ \/ Exhausted'
             \/ _check_scheduled' /\ Len(scheduler') = 1]_vars

\* a connect attempt made by a scheduled check has failed, and the run it
\* caused returned because a check was scheduled
C18_Witness ==
    /\ last.type = "check"
    /\ last.disconnect
    /\ failed >= 1
    /\ disconnects >= 1
    /\ _check_scheduled
    /\ raised = "none"

\* C19: a scheduled check that fires while the connection is up only clears
\* the scheduled flag: the attempt counter is unchanged, run is not called and
\* no new check is scheduled, no server jump and no connect attempt is made,
\* and the connection stays up with its tracked channels.
C19_CheckWhileConnectedOnlyClearsFlag ==
    [][(connected /\ last'.type = "check" /\ vars' # vars) =>
          /\ ~_check_scheduled'
          /\ attempt_count' = attempt_count
          /\ run_calls' = run_calls
          /\ Len(scheduler') = Len(scheduler) - 1
          /\ jumps' = jumps
          /\ servers' = servers
          /\ connects' = connects
          /\ failed' = failed
          /\ disconnects' = disconnects
          /\ connected'
          /\ channels' = channels
          /\ raised' = raised]_vars

\* a check has fired on a connection that a reconnect had established, and
\* left no check pending
C19_Witness ==
    /\ last.type = "check"
    /\ connected
    /\ ~_check_scheduled
    /\ scheduler = <<>>
    /\ jumps >= 1
    /\ raised = "none"

-----------------------------------------------------------------------------
(* Urbit to IRC: the order of the messages *)

\* C20: the messages are passed to privmsg in the order in which they were
\* put on the queue (the i-th call of privmsg carries the i-th message put,
\* with its target and text), a drain tick passes at most one message, and
\* none when the queue is empty.
C20_SentInFifoOrder ==
    [][/\ Len(privmsgs') \in {Len(privmsgs), Len(privmsgs) + 1}
       /\ message_queue = <<>> => privmsgs' = privmsgs
       /\ \A i \in DOMAIN privmsgs' :
             /\ privmsgs'[i].put.nth = i
             /\ <<privmsgs'[i].target, privmsgs'[i].text>> = privmsgs'[i].put.data
       /\ \A i \in DOMAIN waiting' : waiting'[i].nth = Len(privmsgs') + i]_vars

\* two different messages have been sent, the one put first before the other,
\* which was put while the first was waiting
C20_Witness ==
    /\ Len(privmsgs) = 2
    /\ privmsgs[1].put.data # privmsgs[2].put.data
    /\ privmsgs[2].put.ahead = 1
    /\ privmsgs[1].sent /\ privmsgs[2].sent
    /\ raised = "none"

=============================================================================
